---- MODULE Spec2Model ----
(***************************************************************************)
(* Model of seq2seq/dataset/dataset.py (class Dataset): construction       *)
(* through from_file / from_list and _encode, batching with num_batches    *)
(* and the make_batches generator, and in-place shuffling through the      *)
(* process-wide random module.                                             *)
(*                                                                         *)
(* Python's None is the empty tuple, a present value x is the tuple <<x>>. *)
(* Tokens are the integers 1..NumTok.  Python 2 semantics: zip returns a   *)
(* list, so taking column 0 of the zipped pairs is an IndexError on an empty list. *)
(***************************************************************************)
EXTENDS Integers, Sequences, FiniteSets, TLC

\* ------------------------------------------------------------------ bounds
MaxPairs == 3
MaxLen == 2
MaxVocab == 5
MaxBatch == 4
MaxSeed == 1
RngMod == 5
NumTok == 3

VARIABLES
    pc,             \* where the construction of the Dataset stands
    src_max_len,    \* Dataset.src_max_len
    tgt_max_len,    \* Dataset.tgt_max_len
    input_vocab,    \* Dataset.input_vocab (None or a Vocabulary)
    output_vocab,   \* Dataset.output_vocab
    data,           \* Dataset.data (None or the list of encoded pairs)
    pairs,          \* _encode's argument: the filtered raw pairs
    call,           \* _encode's vocabulary arguments and the entry point
    err,            \* the exception that ended the call, "" when none
    rng,            \* state of the process-wide random generator
    gen,            \* the generator make_batches returned (None or its frame)
    yielded,        \* the batches that generator has yielded so far
    clean,          \* no shuffle since the generator was created
    ret,            \* (batch_size, value) of the last num_batches call
    data2,          \* Dataset.data of a second run of the program
    rng2,           \* random generator state of the second run
    joint           \* the last step was shuffle(seed) in both runs: its record

vars == <<pc, src_max_len, tgt_max_len, input_vocab, output_vocab, data, pairs,
          call, err, rng, gen, yielded, clean, ret, data2, rng2, joint>>

buildVars == <<pc, src_max_len, tgt_max_len, input_vocab, output_vocab, pairs, call, err>>
batchVars == <<gen, yielded, clean, ret>>
runVars == <<data2, rng2, joint>>

\* ----------------------------------------------------------------- helpers
None == <<>>
Some(x) == <<x>>
Min(a, b) == IF a < b THEN a ELSE b
Tokens == 1..NumTok

Remove(s, i) == SubSeq(s, 1, i - 1) \o SubSeq(s, i + 1, Len(s))

\* Number of positions of s holding x.
Count(s, x) == Cardinality({i \in 1..Len(s) : s[i] = x})

\* ------------------------------------------------- Vocabulary (collaborator)
PAD == 0
SOS == 1
EOS == 2
UNK == 3
NumReserved == 4

EmptyVocab(max_size) ==
    [max_size |-> max_size, toks |-> <<>>, count |-> [t \in Tokens |-> 0], trimmed |-> FALSE]

\* Vocabulary(max_size): a configuration error below the reserved symbols.
Vocabulary(max_size) ==
    [ok |-> max_size >= NumReserved,
     err |-> IF max_size >= NumReserved THEN "" ELSE "ValueError",
     v |-> EmptyVocab(max_size)]

add_token(v, t) ==
    IF v.count[t] > 0
    THEN [v EXCEPT !.count[t] = @ + 1]
    ELSE [v EXCEPT !.toks = Append(@, t), !.count[t] = 1]

RECURSIVE add_sequence(_, _)
add_sequence(v, sequence) ==
    IF sequence = <<>> THEN v
    ELSE add_sequence(add_token(v, Head(sequence)), Tail(sequence))

RECURSIVE add_sequences(_, _)
add_sequences(v, sequences) ==
    IF sequences = <<>> THEN v
    ELSE add_sequences(add_sequence(v, Head(sequences)), Tail(sequences))

\* Stable sort by descending frequency.
RECURSIVE SortByCount(_, _)
SortByCount(toks, count) ==
    IF toks = <<>> THEN <<>>
    ELSE LET best == CHOOSE i \in 1..Len(toks) :
                        \A j \in 1..Len(toks) :
                            \/ count[toks[i]] > count[toks[j]]
                            \/ count[toks[i]] = count[toks[j]] /\ i <= j
         IN  <<toks[best]>> \o SortByCount(Remove(toks, best), count)

trim(v) ==
    IF v.trimmed THEN v
    ELSE LET sorted == SortByCount(v.toks, v.count)
             kept == SubSeq(sorted, 1, Min(Len(sorted), v.max_size - NumReserved))
         IN  [v EXCEPT !.toks = kept,
                       !.count = [t \in Tokens |-> IF Count(kept, t) > 0 THEN v.count[t] ELSE 0],
                       !.trimmed = TRUE]

index_for_token(v, t) ==
    IF Count(v.toks, t) > 0
    THEN NumReserved - 1 + (CHOOSE j \in 1..Len(v.toks) : v.toks[j] = t)
    ELSE UNK

indices_from_sequence(v, sequence) ==
    [j \in 1..Len(sequence) |-> index_for_token(v, sequence[j])] \o <<EOS>>

\* ------------------------------------------------------ utils (collaborator)
\* The pairs whose raw lengths are within the caps, in their order.
prepare_data_from_list(src_data, tgt_data, src_cap, tgt_cap) ==
    SelectSeq([k \in 1..Min(Len(src_data), Len(tgt_data)) |-> <<src_data[k], tgt_data[k]>>],
              LAMBDA p : Len(p[1]) <= src_cap /\ Len(p[2]) <= tgt_cap)

\* The ranked-token list a vocabulary path names, cut at the maximum size.
VocabFile == [j \in 1..NumTok |-> NumTok + 1 - j]
read_vocabulary(max_num_vocab) ==
    SubSeq(VocabFile, 1, Min(Len(VocabFile), max_num_vocab))

\* ------------------------------------------------------------------ inputs
TokSeq(start, len) == [j \in 1..len |-> ((start + j - 2) % NumTok) + 1]

RawPool ==
    << <<TokSeq(1, 1), TokSeq(2, MaxLen)>>,
       <<TokSeq(2, MaxLen), TokSeq(1, 1)>>,
       <<TokSeq(3, 2), TokSeq(1, 2)>> >>

\* A raw corpus of n pairs, the pool taken cyclically from offset s.
Corpus(n, s) == [k \in 1..n |-> RawPool[((k + s - 1) % Len(RawPool)) + 1]]
Corpora == {Corpus(n, s) : n \in 1..MaxPairs, s \in 0..(Len(RawPool) - 1)} \cup {<<>>}
Column(ps, k) == [i \in 1..Len(ps) |-> ps[i][k]]
FileCorpus == Corpus(MaxPairs, 1)

\* The vocabulary argument of a side: its Python type.
VocabArgs == {"None", "Vocabulary", "str", "int"}
MaxVocabArgs == (NumReserved - 1)..MaxVocab
PrebuiltVocab ==
    [max_size |-> NumReserved + 2, toks |-> <<2, 1>>,
     count |-> [t \in Tokens |-> IF t <= 2 THEN 3 - t ELSE 0], trimmed |-> TRUE]

\* Faulty variant: an argument of any other type falls through to the fresh vocabulary.
init_vocab_lenient(sequences, max_num_vocab, vocab) ==
    LET made == Vocabulary(max_num_vocab) IN
    IF ~made.ok THEN [ok |-> FALSE, err |-> made.err, v |-> made.v]
    ELSE IF vocab = "None"
        THEN [ok |-> TRUE, err |-> "", v |-> trim(add_sequences(made.v, sequences))]
    ELSE IF vocab = "Vocabulary"
        THEN [ok |-> TRUE, err |-> "", v |-> PrebuiltVocab]
    ELSE IF vocab = "str"
        THEN [ok |-> TRUE, err |-> "",
              v |-> add_sequence(made.v, read_vocabulary(max_num_vocab))]
    ELSE [ok |-> TRUE, err |-> "", v |-> made.v]

\* ------------------------------------------------------------- _init_vocab
_init_vocab(sequences, max_num_vocab, vocab) ==
    LET made == Vocabulary(max_num_vocab) IN
    IF ~made.ok THEN [ok |-> FALSE, err |-> made.err, v |-> made.v]
    ELSE IF vocab = "None"
        THEN [ok |-> TRUE, err |-> "", v |-> trim(add_sequences(made.v, sequences))]
    ELSE IF vocab = "Vocabulary"
        THEN [ok |-> TRUE, err |-> "", v |-> PrebuiltVocab]
    ELSE IF vocab = "str"
        THEN [ok |-> TRUE, err |-> "",
              v |-> add_sequence(made.v, read_vocabulary(max_num_vocab))]
    ELSE [ok |-> FALSE, err |-> "AttributeError", v |-> made.v]

\* Column k of the zipped pairs, then _init_vocab: the argument is evaluated first.
resolve(ps, k, max_num_vocab, vocab) ==
    IF ps = <<>>
    THEN [ok |-> FALSE, err |-> "IndexError", v |-> EmptyVocab(max_num_vocab)]
    ELSE _init_vocab(Column(ps, k), max_num_vocab, vocab)

encode_pair(iv, ov, pair) ==
    <<indices_from_sequence(iv, pair[1]), indices_from_sequence(ov, pair[2])>>

\* _encode as one call: what it leaves in the object and how it ends.
_encode(ps, c) ==
    LET r1 == resolve(ps, 1, c.src_max_vocab, c.src_vocab)
        r2 == resolve(ps, 2, c.tgt_max_vocab, c.tgt_vocab)
    IN  IF ~r1.ok
        THEN [pc |-> "failed", err |-> r1.err, input_vocab |-> None,
              output_vocab |-> None, data |-> None]
        ELSE IF ~r2.ok
        THEN [pc |-> "failed", err |-> r2.err, input_vocab |-> Some(r1.v),
              output_vocab |-> None, data |-> None]
        ELSE [pc |-> "ready", err |-> "", input_vocab |-> Some(r1.v),
              output_vocab |-> Some(r2.v),
              data |-> Some([i \in 1..Len(ps) |-> encode_pair(r1.v, r2.v, ps[i])])]

\* ------------------------------------------------ construction, step by step
Init ==
    /\ pc = "new"
    /\ src_max_len \in 1..MaxLen
    /\ tgt_max_len \in 1..MaxLen
    /\ input_vocab = None
    /\ output_vocab = None
    /\ data = None
    /\ pairs = <<>>
    /\ call = [entry |-> "", src_vocab |-> "None", tgt_vocab |-> "None",
               src_max_vocab |-> MaxVocab, tgt_max_vocab |-> MaxVocab]
    /\ err = ""
    /\ rng = 0
    /\ gen = None
    /\ yielded = <<>>
    /\ clean = TRUE
    /\ ret = None
    /\ data2 = None
    /\ rng2 = 0
    /\ joint = None

\* Faulty variant: the two length caps handed to the filter in the wrong order.
from_list_swapped_caps(src_data, tgt_data, sv, tv, smv, tmv) ==
    /\ pc = "new"
    /\ pairs' = prepare_data_from_list(src_data, tgt_data, tgt_max_len, src_max_len)
    /\ call' = [entry |-> "from_list", src_vocab |-> sv, tgt_vocab |-> tv,
                src_max_vocab |-> smv, tgt_max_vocab |-> tmv]
    /\ pc' = "init_src"
    /\ UNCHANGED <<src_max_len, tgt_max_len, input_vocab, output_vocab, data, err,
                   rng, batchVars, runVars>>

from_list(src_data, tgt_data, sv, tv, smv, tmv) ==
    /\ pc = "new"
    /\ pairs' = prepare_data_from_list(src_data, tgt_data, src_max_len, tgt_max_len)
    /\ call' = [entry |-> "from_list", src_vocab |-> sv, tgt_vocab |-> tv,
                src_max_vocab |-> smv, tgt_max_vocab |-> tmv]
    /\ pc' = "init_src"
    /\ UNCHANGED <<src_max_len, tgt_max_len, input_vocab, output_vocab, data, err,
                   rng, batchVars, runVars>>

\* utils.prepare_data reads the pairs at the path and filters them by the same
\* caps as prepare_data_from_list.
from_file(sv, tv, smv, tmv) ==
    /\ pc = "new"
    /\ pairs' = prepare_data_from_list(Column(FileCorpus, 1), Column(FileCorpus, 2),
                                       src_max_len, tgt_max_len)
    /\ call' = [entry |-> "from_file", src_vocab |-> sv, tgt_vocab |-> tv,
                src_max_vocab |-> smv, tgt_max_vocab |-> tmv]
    /\ pc' = "init_src"
    /\ UNCHANGED <<src_max_len, tgt_max_len, input_vocab, output_vocab, data, err,
                   rng, batchVars, runVars>>

\* Line 114.
EncodeInitSrc ==
    /\ pc = "init_src"
    /\ LET r == resolve(pairs, 1, call.src_max_vocab, call.src_vocab) IN
       IF r.ok
       THEN /\ input_vocab' = Some(r.v)
            /\ pc' = "init_tgt"
            /\ err' = err
       ELSE /\ input_vocab' = input_vocab
            /\ pc' = "failed"
            /\ err' = r.err
    /\ UNCHANGED <<src_max_len, tgt_max_len, output_vocab, data, pairs, call,
                   rng, batchVars, runVars>>

\* Line 115.
EncodeInitTgt ==
    /\ pc = "init_tgt"
    /\ LET r == resolve(pairs, 2, call.tgt_max_vocab, call.tgt_vocab) IN
       IF r.ok
       THEN /\ output_vocab' = Some(r.v)
            /\ pc' = "begin"
            /\ err' = err
       ELSE /\ output_vocab' = output_vocab
            /\ pc' = "failed"
            /\ err' = r.err
    /\ UNCHANGED <<src_max_len, tgt_max_len, input_vocab, data, pairs, call,
                   rng, batchVars, runVars>>

\* Line 118.
EncodeBegin ==
    /\ pc = "begin"
    /\ data' = Some(<<>>)
    /\ pc' = "encode"
    /\ UNCHANGED <<src_max_len, tgt_max_len, input_vocab, output_vocab, pairs, call,
                   err, rng, batchVars, runVars>>

\* Faulty variant: the loop also counts the pair's tokens into the vocabularies.
EncodeStepCounting ==
    /\ pc = "encode"
    /\ Len(data[1]) < Len(pairs)
    /\ data' = Some(Append(data[1],
                           encode_pair(input_vocab[1], output_vocab[1],
                                       pairs[Len(data[1]) + 1])))
    /\ input_vocab' = Some(add_sequence(input_vocab[1], pairs[Len(data[1]) + 1][1]))
    /\ output_vocab' = Some(add_sequence(output_vocab[1], pairs[Len(data[1]) + 1][2]))
    /\ UNCHANGED <<pc, src_max_len, tgt_max_len, pairs,
                   call, err, rng, batchVars, runVars>>

\* Lines 119-122: one iteration of the loop.
EncodeStep ==
    /\ pc = "encode"
    /\ Len(data[1]) < Len(pairs)
    /\ data' = Some(Append(data[1],
                           encode_pair(input_vocab[1], output_vocab[1],
                                       pairs[Len(data[1]) + 1])))
    /\ UNCHANGED <<pc, src_max_len, tgt_max_len, input_vocab, output_vocab, pairs,
                   call, err, rng, batchVars, runVars>>

\* Line 123.
EncodeReturn ==
    /\ pc = "encode"
    /\ Len(data[1]) = Len(pairs)
    /\ pc' = "ready"
    /\ UNCHANGED <<src_max_len, tgt_max_len, input_vocab, output_vocab, data, pairs,
                   call, err, rng, batchVars, runVars>>

Next ==
    \/ \E c \in Corpora, sv \in VocabArgs, tv \in VocabArgs,
          smv \in MaxVocabArgs, tmv \in MaxVocabArgs :
            from_list(Column(c, 1), Column(c, 2), sv, tv, smv, tmv)
    \/ \E sv \in VocabArgs, tv \in VocabArgs,
          smv \in MaxVocabArgs, tmv \in MaxVocabArgs : from_file(sv, tv, smv, tmv)
    \/ EncodeInitSrc
    \/ EncodeInitTgt
    \/ EncodeBegin
    \/ EncodeStep
    \/ EncodeReturn

Spec == Init /\ [][Next]_vars

\* The step-by-step construction ends as the single call does.
StepsAgree ==
    pc \in {"ready", "failed"} =>
        _encode(pairs, call) = [pc |-> pc, err |-> err, input_vocab |-> input_vocab,
                               output_vocab |-> output_vocab, data |-> data]

\* -------------------------------------------------- random (process-wide)
\* One draw of the generator: the state it moves to.
random(r) == (3 * r + 1) % RngMod
\* random.seed(seed): the state depends on the seed alone.
random_seed(seed) == seed % RngMod
SeedArgs == {None} \cup {Some(s) : s \in 0..MaxSeed}
RngStates == 0..(RngMod - 1)

\* Faulty variant: only the source sequences change places.
SwapSources(x, i, j) ==
    [x EXCEPT ![i] = <<x[j][1], x[i][2]>>, ![j] = <<x[i][1], x[j][2]>>]

Swap(x, i, j) == [x EXCEPT ![i] = x[j], ![j] = x[i]]

\* random.shuffle(x): for i from len(x)-1 down to 1, j = int(random() * (i+1)),
\* x[i], x[j] = x[j], x[i].  i and j are Python's 0-based indices.
RECURSIVE random_shuffle(_, _, _)
random_shuffle(x, i, r) ==
    IF i < 1 THEN [x |-> x, rng |-> r]
    ELSE LET r2 == random(r)
             j == r2 % (i + 1)
         IN  random_shuffle(Swap(x, i + 1, j + 1), i - 1, r2)

\* Faulty variant: the seed is not given to the generator.
shuffled_unseeded(d, r, seed) == random_shuffle(d, Len(d) - 1, r)

\* Dataset.shuffle on the list d with the generator in state r.
shuffled(d, r, seed) ==
    random_shuffle(d, Len(d) - 1, IF seed = None THEN r ELSE random_seed(seed[1]))

\* ------------------------------------------------------------------ batching
\* Python 2's range(start, stop, step) for step > 0.
RECURSIVE Range(_, _, _)
Range(start, stop, step) ==
    IF start >= stop THEN <<>> ELSE <<start>> \o Range(start + step, stop, step)

\* Faulty variant: floor division, the short last batch not counted.
num_batches_floor(d, batch_size) == Len(d) \div batch_size

num_batches_of(d, batch_size) == Len(Range(0, Len(d), batch_size))

\* Faulty variant: the slice data[i:batch_size], the offset i forgotten in its end.
BatchNoOffset(d, i, batch_size) ==
    LET cur_batch == SubSeq(d, i + 1, Min(batch_size, Len(d)))
    IN  <<[k \in 1..Len(cur_batch) |-> cur_batch[k][1]],
          [k \in 1..Len(cur_batch) |-> cur_batch[k][2]]>>

\* Lines 171-175: the batch cut at 0-based position i.
Batch(d, i, batch_size) ==
    LET cur_batch == SubSeq(d, i + 1, Min(i + batch_size, Len(d)))
    IN  <<[k \in 1..Len(cur_batch) |-> cur_batch[k][1]],
          [k \in 1..Len(cur_batch) |-> cur_batch[k][2]]>>

\* Faulty variant: the guard with <= for <.
OverflowsInclusive(d, batch_size) == Len(d) <= batch_size

\* Line 167: the guard of make_batches.
Overflows(d, batch_size) == Len(d) < batch_size

BatchSizes == 1..MaxBatch

\* The dataset from_list leaves for a raw corpus of n pairs, nothing filtered.
DefaultCall ==
    [entry |-> "from_list", src_vocab |-> "None", tgt_vocab |-> "None",
     src_max_vocab |-> MaxVocab, tgt_max_vocab |-> MaxVocab]
Built(n) ==
    LET c == Corpus(n, 0)
        ps == prepare_data_from_list(Column(c, 1), Column(c, 2), MaxLen, MaxLen)
    IN  [pairs |-> ps, out |-> _encode(ps, DefaultCall)]

InitReady(n) ==
    /\ pc = Built(n).out.pc
    /\ src_max_len = MaxLen
    /\ tgt_max_len = MaxLen
    /\ input_vocab = Built(n).out.input_vocab
    /\ output_vocab = Built(n).out.output_vocab
    /\ data = Built(n).out.data
    /\ pairs = Built(n).pairs
    /\ call = DefaultCall
    /\ err = Built(n).out.err
    /\ rng \in RngStates
    /\ gen = None
    /\ yielded = <<>>
    /\ clean = TRUE
    /\ ret = None
    /\ joint = None

InitBatch ==
    /\ \E n \in 1..MaxPairs : InitReady(n)
    /\ data2 = None
    /\ rng2 = 0

\* Calling the generator function runs none of its body.
make_batches(batch_size) ==
    /\ pc = "ready"
    /\ gen' = Some([batch_size |-> batch_size, state |-> "created", todo |-> <<>>,
                    err |-> ""])
    /\ yielded' = <<>>
    /\ clean' = TRUE
    /\ UNCHANGED <<buildVars, data, rng, ret, runVars>>

\* next() on the generator: from the call or from the last yield to the next
\* yield, the end of the loop or the raise.
GenNext ==
    /\ pc = "ready"
    /\ gen # None
    /\ gen[1].state \in {"created", "suspended"}
    /\ LET f == gen[1]
           todo == IF f.state = "created"
                   THEN Range(0, Len(data[1]), f.batch_size)
                   ELSE f.todo
       IN  IF f.state = "created" /\ Overflows(data[1], f.batch_size)
           THEN /\ gen' = Some([f EXCEPT !.state = "raised", !.err = "OverflowError"])
                /\ yielded' = yielded
           ELSE IF todo = <<>>
           THEN /\ gen' = Some([f EXCEPT !.state = "done", !.todo = <<>>])
                /\ yielded' = yielded
           ELSE /\ gen' = Some([f EXCEPT !.state = "suspended", !.todo = Tail(todo)])
                /\ yielded' = Append(yielded, Batch(data[1], Head(todo), f.batch_size))
    /\ UNCHANGED <<buildVars, data, rng, clean, ret, runVars>>

num_batches(batch_size) ==
    /\ pc = "ready"
    /\ ret' = Some([batch_size |-> batch_size, value |-> num_batches_of(data[1], batch_size)])
    /\ UNCHANGED <<buildVars, data, rng, gen, yielded, clean, runVars>>

shuffle(seed) ==
    /\ pc = "ready"
    /\ LET s == shuffled(data[1], rng, seed) IN
        /\ data' = Some(s.x)
        /\ rng' = s.rng
    /\ clean' = FALSE
    /\ joint' = None
    /\ UNCHANGED <<buildVars, gen, yielded, ret, data2, rng2>>

NextBatch ==
    \/ \E batch_size \in BatchSizes : make_batches(batch_size)
    \/ GenNext
    \/ \E batch_size \in BatchSizes : num_batches(batch_size)
    \/ \E seed \in SeedArgs : shuffle(seed)

SpecBatch == InitBatch /\ [][NextBatch]_vars

\* ------------------------------------------------ two runs of the program
InitRuns ==
    /\ \E n \in 2..MaxPairs : InitReady(n)
    /\ data2 = data
    /\ rng2 \in RngStates

\* shuffle in the second run.
shuffle2(seed) ==
    /\ pc = "ready"
    /\ LET s == shuffled(data2[1], rng2, seed) IN
        /\ data2' = Some(s.x)
        /\ rng2' = s.rng
    /\ joint' = None
    /\ UNCHANGED <<buildVars, data, rng, batchVars>>

\* Another use of the random module in run 1, in run 2.
random_use ==
    /\ pc = "ready"
    /\ rng' = random(rng)
    /\ joint' = None
    /\ UNCHANGED <<buildVars, data, batchVars, data2, rng2>>

random_use2 ==
    /\ pc = "ready"
    /\ rng2' = random(rng2)
    /\ joint' = None
    /\ UNCHANGED <<buildVars, data, rng, batchVars, data2>>

\* Both runs call shuffle(seed=s).
shuffle_both(s) ==
    /\ pc = "ready"
    /\ LET s1 == shuffled(data[1], rng, Some(s))
           s2 == shuffled(data2[1], rng2, Some(s))
       IN  /\ data' = Some(s1.x)
           /\ rng' = s1.rng
           /\ data2' = Some(s2.x)
           /\ rng2' = s2.rng
    /\ joint' = Some([seed |-> s, same_order |-> data = data2,
                      same_rng |-> rng = rng2, before |-> data])
    /\ clean' = FALSE
    /\ UNCHANGED <<buildVars, gen, yielded, ret>>

NextRuns ==
    \/ \E seed \in SeedArgs : shuffle(seed)
    \/ \E seed \in SeedArgs : shuffle2(seed)
    \/ random_use
    \/ random_use2
    \/ \E s \in 0..MaxSeed : shuffle_both(s)

SpecRuns == InitRuns /\ [][NextRuns]_vars

\* =================================================================== claims
GenFrame == gen[1]
Encoded == _encode(pairs, call).data[1]
IsPermutation(a, b) ==
    /\ Len(a) = Len(b)
    /\ \A i \in 1..Len(a) : Count(a, a[i]) = Count(b, a[i])

\* The least q with q * batch_size >= n.
CeilDiv(n, batch_size) ==
    CHOOSE q \in 0..n : q * batch_size >= n /\ (q = 0 \/ (q - 1) * batch_size < n)

\* C1: a pass of make_batches with no shuffle since the generator was made
\* yields the consecutive chunks of data: batch k holds the pairs at positions
\* [k*batch_size, min((k+1)*batch_size, len(data))) in order, sources and
\* targets from the same pair, every batch but the last of full size, and at
\* the end of the pass every position lies in exactly one batch.
C1_ConsecutiveChunks ==
    (gen # None /\ clean /\ GenFrame.state \in {"suspended", "done"}) =>
        LET bs == GenFrame.batch_size
            d == data[1]
            n == Len(d)
        IN  /\ \A k \in 1..Len(yielded) :
                  LET lo == (k - 1) * bs
                      hi == Min(k * bs, n)
                  IN  /\ lo < hi
                      /\ yielded[k][1] = [i \in 1..(hi - lo) |-> d[lo + i][1]]
                      /\ yielded[k][2] = [i \in 1..(hi - lo) |-> d[lo + i][2]]
                      /\ (k < Len(yielded) => hi - lo = bs)
            /\ GenFrame.state = "done" =>
                  \A p \in 1..n :
                      Cardinality({k \in 1..Len(yielded) :
                                      (k - 1) * bs < p /\ p <= Min(k * bs, n)}) = 1

\* A finished pass over a reordered corpus of three pairs, two per batch.
C1_Witness ==
    /\ gen # None
    /\ clean
    /\ GenFrame.state = "done"
    /\ GenFrame.batch_size = 2
    /\ Len(data[1]) = 3
    /\ Len(yielded) = 2
    /\ data[1] # Encoded

\* C2: num_batches(batch_size) is ceil(n / batch_size) for every size n >= 0 and
\* batch_size >= 1, and a complete pass of make_batches yields that many batches.
C2_NumBatchesIsCeil ==
    /\ \A n \in 0..(MaxPairs + 1), bs \in BatchSizes :
          num_batches_of([i \in 1..n |-> i], bs) = CeilDiv(n, bs)
    /\ ret # None => ret[1].value = CeilDiv(Len(data[1]), ret[1].batch_size)
    /\ (gen # None /\ GenFrame.state = "done") =>
          Len(yielded) = num_batches_of(data[1], GenFrame.batch_size)

\* num_batches was asked for the batch size of a finished pass whose last batch
\* is short.
C2_Witness ==
    /\ gen # None
    /\ GenFrame.state = "done"
    /\ ret # None
    /\ ret[1].batch_size = GenFrame.batch_size
    /\ ret[1].value = Len(yielded)
    /\ ret[1].value >= 2
    /\ ret[1].value * ret[1].batch_size > Len(data[1])

\* C3: the pass of make_batches(batch_size) ends in an OverflowError exactly
\* when batch_size > len(data); it has then yielded no batch and leaves data as
\* it was; with 1 <= batch_size <= len(data) it does not raise.
C3_OverflowGuard ==
    /\ [](gen # None =>
            LET n == Len(data[1]) IN
            /\ GenFrame.state = "raised" =>
                  GenFrame.batch_size > n /\ GenFrame.err = "OverflowError"
            /\ (GenFrame.batch_size > n /\ GenFrame.state # "created") =>
                  GenFrame.state = "raised"
            /\ GenFrame.batch_size > n => yielded = <<>>
            /\ GenFrame.batch_size <= n =>
                  GenFrame.state # "raised" /\ GenFrame.err = "")
    /\ [][(gen' # gen /\ gen' # None /\ gen'[1].state = "raised") => data' = data]_vars

\* The generator of a batch size one above the corpus size has raised, after a
\* shuffle had reordered the corpus.
C3_Witness ==
    /\ gen # None
    /\ GenFrame.state = "raised"
    /\ GenFrame.batch_size = Len(data[1]) + 1
    /\ yielded = <<>>
    /\ data[1] # Encoded

\* C4: after any shuffles data is a permutation of the encoded corpus: same
\* length, same multiset of (source, target) pairs, so every source sequence
\* is still with its target sequence.
C4_ShufflePermutes ==
    pc = "ready" =>
        /\ IsPermutation(data[1], Encoded)
        /\ \A i \in 1..Len(data[1]) :
              \E j \in 1..Len(Encoded) : data[1][i] = Encoded[j]

\* A corpus of three pairs in another order than the encoding left it.
C4_Witness ==
    /\ pc = "ready"
    /\ ~clean
    /\ Len(data[1]) >= 3
    /\ data[1] # Encoded
    /\ data[1][1] # Encoded[1]

\* C5: two runs that call shuffle(seed=s) from the same order of data end with
\* the same order, whatever their random generators had done before.
C5_SeededShuffleDeterministic ==
    (joint # None /\ joint[1].same_order) => data = data2

\* Both runs shuffled with one seed from the same order, their generators in
\* different states, and the order changed.
C5_Witness ==
    /\ joint # None
    /\ joint[1].same_order
    /\ ~joint[1].same_rng
    /\ data = data2
    /\ data # joint[1].before

Outcome ==
    [pc |-> pc, err |-> err, input_vocab |-> input_vocab,
     output_vocab |-> output_vocab, data |-> data]

\* C6: with a Vocabulary instance passed for a side, the outcome of _encode is
\* the same for every value of that side's max-size argument.
C6_MaxSizeIgnored ==
    pc \in {"ready", "failed"} =>
        \A m \in MaxVocabArgs :
            /\ call.src_vocab = "Vocabulary" =>
                  Outcome = _encode(pairs, [call EXCEPT !.src_max_vocab = m])
            /\ call.tgt_vocab = "Vocabulary" =>
                  Outcome = _encode(pairs, [call EXCEPT !.tgt_max_vocab = m])

\* C7: with a vocabulary argument of an unsupported type on either side,
\* _encode never reaches the encoding loop, data stays None, and the call
\* ends in an error.
C7_InvalidVocabArgument ==
    (pc # "new" /\ (call.src_vocab = "int" \/ call.tgt_vocab = "int")) =>
        /\ data = None
        /\ pc \in {"init_src", "init_tgt", "failed"}
        /\ pc = "failed" => err # ""
        /\ call.src_vocab = "int" => pc # "init_tgt"

\* The target argument was the invalid one: the source vocabulary had been
\* resolved, and the call failed on the type.
C7_Witness ==
    /\ pc = "failed"
    /\ err = "AttributeError"
    /\ call.tgt_vocab = "int"
    /\ call.src_vocab = "None"
    /\ input_vocab # None
    /\ pairs # <<>>
    /\ data = None

\* C8: for every list of filtered pairs, the empty one included, _encode with
\* valid vocabulary arguments stores the encoding of pairs[i] at data[i], so
\* len(dataset) is the number of retained pairs.
C8_EncodesEveryPair ==
    (/\ pc \in {"ready", "failed"}
     /\ call.src_vocab # "int"
     /\ call.tgt_vocab # "int"
     /\ call.src_max_vocab >= NumReserved
     /\ call.tgt_max_vocab >= NumReserved) =>
        /\ pc = "ready"
        /\ data # None
        /\ Len(data[1]) = Len(pairs)
        /\ \A i \in 1..Len(pairs) :
              data[1][i] = encode_pair(input_vocab[1], output_vocab[1], pairs[i])

\* C9 as stated: every stored source sequence is at most src_max_len long and
\* every stored target sequence at most tgt_max_len.
C9_StoredWithinCaps ==
    data # None =>
        \A i \in 1..Len(data[1]) :
            /\ Len(data[1][i][1]) <= src_max_len
            /\ Len(data[1][i][2]) <= tgt_max_len

\* C9 amended: every stored source sequence is at most src_max_len + 1 long
\* and every stored target sequence at most tgt_max_len + 1: the retained
\* tokens and the end-of-sequence index.
C9_StoredWithinCapsPlusEos ==
    data # None =>
        \A i \in 1..Len(data[1]) :
            /\ Len(data[1][i][1]) <= src_max_len + 1
            /\ Len(data[1][i][2]) <= tgt_max_len + 1

\* A dataset with a source at its cap plus one and a target at its cap plus
\* one, built with caps that filter part of the pool.
C9_Witness ==
    /\ pc = "ready"
    /\ src_max_len < tgt_max_len
    /\ \E i \in 1..Len(data[1]) : Len(data[1][i][1]) = src_max_len + 1
    /\ \E i \in 1..Len(data[1]) : Len(data[1][i][2]) = tgt_max_len + 1

\* C10: from the assignment of data on (the loop has not encoded anything
\* before it), both vocabularies are the ones _init_vocab resolved, and no
\* step from there on changes either of them.
C10_VocabulariesResolvedFirst ==
    /\ [](pc \in {"begin", "encode", "ready"} =>
            /\ data # None => pc # "begin"
            /\ input_vocab = Some(resolve(pairs, 1, call.src_max_vocab, call.src_vocab).v)
            /\ output_vocab = Some(resolve(pairs, 2, call.tgt_max_vocab, call.tgt_vocab).v))
    /\ [](data # None => input_vocab # None /\ output_vocab # None)
    /\ [][(pc \in {"begin", "encode", "ready"}) =>
            (input_vocab' = input_vocab /\ output_vocab' = output_vocab)]_vars

\* In the middle of the loop, with a source vocabulary built from the pairs
\* and trimmed below the tokens seen, and a target vocabulary read from a list.
C10_Witness ==
    /\ pc = "encode"
    /\ Len(data[1]) >= 1
    /\ Len(data[1]) < Len(pairs)
    /\ call.src_vocab = "None"
    /\ call.tgt_vocab = "str"
    /\ input_vocab[1].trimmed
    /\ Len(input_vocab[1].toks) < NumTok

====
